---- MODULE Spec2Model ----
(***************************************************************************)
(* Model of the inventory engine of app.py: the scalar normalisers         *)
(* (money_to_float, num_or_zero), the classifier get_product_status, the   *)
(* cleaner clean_and_validate_data, the metrics function                   *)
(* calculate_inventory_metrics and the two pages that derive figures from  *)
(* them (show_reorder_alerts, show_raw_material_master).                   *)
(*                                                                         *)
(* Python values are tagged records: None, a str (a sequence of one-       *)
(* character strings) or a number.  A number is an exact fraction n/d; the *)
(* float NaN is the fraction 0/0, on which every comparison is false, as   *)
(* in IEEE arithmetic.  A dict is a function whose DOMAIN is the set of    *)
(* keys that are present.                                                  *)
(***************************************************************************)
EXTENDS Integers, Sequences, FiniteSets, TLC

VARIABLES data, cleaned_data, lines, metrics, page, pc, arg, result,
          session, cache, memo, now, world, run

\* the state of the Streamlit process around the engine: st.session_state,
\* the cache of load_all_data, the cache of calculate_inventory_metrics, the
\* clock, the spreadsheet service, and the bookkeeping of the current run
appvars == <<session, cache, memo, now, world, run>>

vars == <<data, cleaned_data, lines, metrics, page, pc, arg, result,
          session, cache, memo, now, world, run>>

(***************************************************************************)
(* Bounds of the explored inputs.                                          *)
(***************************************************************************)
MaxCatalog == 2
MaxIn == 2
MaxOut == 1
MaxLen == 3
MaxTicks == 3

(***************************************************************************)
(* Floats as exact fractions.                                              *)
(***************************************************************************)
Abs(i) == IF i < 0 THEN -i ELSE i

RECURSIVE GCD(_, _)
GCD(a, b) == IF b = 0 THEN a ELSE GCD(b, a % b)

NaN == [n |-> 0, d |-> 0]

Frac(n, d) ==
    IF d = 0 THEN NaN
    ELSE LET g == GCD(Abs(n), Abs(d))
             s == IF d < 0 THEN -1 ELSE 1
         IN  [n |-> (s * n) \div g, d |-> (s * d) \div g]

R(i) == [n |-> i, d |-> 1]

IsNaN(a) == a.d = 0

FEq(a, b) == ~IsNaN(a) /\ ~IsNaN(b) /\ a.n * b.d = b.n * a.d
FLt(a, b) == ~IsNaN(a) /\ ~IsNaN(b) /\ a.n * b.d < b.n * a.d
FLe(a, b) == ~IsNaN(a) /\ ~IsNaN(b) /\ a.n * b.d <= b.n * a.d
FGt(a, b) == FLt(b, a)

FAdd(a, b) == IF IsNaN(a) \/ IsNaN(b) THEN NaN ELSE Frac(a.n * b.d + b.n * a.d, a.d * b.d)
FSub(a, b) == IF IsNaN(a) \/ IsNaN(b) THEN NaN ELSE Frac(a.n * b.d - b.n * a.d, a.d * b.d)
FMul(a, b) == IF IsNaN(a) \/ IsNaN(b) THEN NaN ELSE Frac(a.n * b.n, a.d * b.d)
\* a / b for b # 0 (the code divides only under such a guard)
FDiv(a, b) == IF IsNaN(a) \/ IsNaN(b) THEN NaN ELSE Frac(a.n * b.d, a.d * b.n)

RECURSIVE Pow10(_)
Pow10(k) == IF k = 0 THEN 1 ELSE 10 * Pow10(k - 1)

(***************************************************************************)
(* Python values.                                                          *)
(***************************************************************************)
None == [t |-> "none", s |-> <<>>, n |-> 0, d |-> 1]
Str(s) == [t |-> "str", s |-> s, n |-> 0, d |-> 1]
Num(f) == [t |-> "num", s |-> <<>>, n |-> f.n, d |-> f.d]
IntV(i) == Num(R(i))

FloatOf(v) == [n |-> v.n, d |-> v.d]

\* dict.get(key, default)
Get(record, key, default) == IF key \in DOMAIN record THEN record[key] ELSE default

\* dict.get(key): None when the key is absent
Get1(record, key) == Get(record, key, None)

\* Python truth value of a scalar: None, "", 0 and 0.0 are false; NaN is true
Truthy(v) ==
    CASE v.t = "none" -> FALSE
      [] v.t = "str" -> v.s # <<>>
      [] OTHER -> ~(v.d # 0 /\ v.n = 0)

(***************************************************************************)
(* Characters and strings.                                                 *)
(***************************************************************************)
DigitSeq == <<"0", "1", "2", "3", "4", "5", "6", "7", "8", "9">>
Digits == {DigitSeq[i] : i \in 1..10}
DigitVal(c) == (CHOOSE i \in 1..10 : DigitSeq[i] = c) - 1

LowerSeq == <<"a", "b", "c", "e", "n", "o", "s", "y">>
UpperSeq == <<"A", "B", "C", "E", "N", "O", "S", "Y">>

\* the characters of the modelled cell texts
Alphabet == Digits \cup {LowerSeq[i] : i \in 1..Len(LowerSeq)}
                   \cup {UpperSeq[i] : i \in 1..Len(UpperSeq)}
                   \cup {".", "-", "+", ",", " ", "₹"}

IsSpace(c) == c = " "

\* str.upper(), character by character
UpperChar(c) ==
    IF \E i \in 1..Len(LowerSeq) : LowerSeq[i] = c
    THEN UpperSeq[CHOOSE i \in 1..Len(LowerSeq) : LowerSeq[i] = c]
    ELSE c

Upper(s) == [i \in 1..Len(s) |-> UpperChar(s[i])]

RECURSIVE LStrip(_)
LStrip(s) == IF s # <<>> /\ IsSpace(s[1]) THEN LStrip(Tail(s)) ELSE s

RECURSIVE RStrip(_)
RStrip(s) ==
    IF s # <<>> /\ IsSpace(s[Len(s)]) THEN RStrip(SubSeq(s, 1, Len(s) - 1)) ELSE s

\* str.strip()
Strip(s) == RStrip(LStrip(s))

AllDigits(s) == \A i \in 1..Len(s) : s[i] \in Digits

RECURSIVE DigitsVal(_)
DigitsVal(s) ==
    IF s = <<>> THEN 0
    ELSE 10 * DigitsVal(SubSeq(s, 1, Len(s) - 1)) + DigitVal(s[Len(s)])

RECURSIVE NatStr(_)
NatStr(i) ==
    IF i < 10 THEN <<DigitSeq[i + 1]>> ELSE NatStr(i \div 10) \o <<DigitSeq[(i % 10) + 1]>>

\* str(x): a str is itself, None is "None", an int is its decimal digits
\* (numbers in the text columns are whole numbers; a float prints as "nan"
\* or with a trailing ".0")
PyStr(v) ==
    CASE v.t = "str" -> v.s
      [] v.t = "none" -> <<"N", "o", "n", "e">>
      [] OTHER ->
           IF v.d = 0 THEN <<"n", "a", "n">>
           ELSE (IF v.n < 0 THEN <<"-">> ELSE <<>>) \o NatStr(Abs(v.n) \div v.d)

(***************************************************************************)
(* float(str): surrounding whitespace, an optional sign, then "nan" in any *)
(* case or a decimal numeral with at most one point and an optional        *)
(* exponent.  Result: [ok |-> parsed, val |-> the number].  ("inf" and     *)
(* the digit separator "_" need characters outside Alphabet.)              *)
(***************************************************************************)
FirstIdx(s, cs) ==
    IF \E i \in 1..Len(s) : s[i] \in cs
    THEN CHOOSE i \in 1..Len(s) : s[i] \in cs /\ \A j \in 1..(i - 1) : s[j] \notin cs
    ELSE 0

Unsigned(s) == IF s # <<>> /\ s[1] \in {"-", "+"} THEN Tail(s) ELSE s
SignOf(s) == IF s # <<>> /\ s[1] = "-" THEN -1 ELSE 1

\* digits [ "." digits ] with at least one digit
DecimalOK(m) ==
    LET p == FirstIdx(m, {"."})
        ip == IF p = 0 THEN m ELSE SubSeq(m, 1, p - 1)
        fp == IF p = 0 THEN <<>> ELSE SubSeq(m, p + 1, Len(m))
    IN  AllDigits(ip) /\ AllDigits(fp) /\ Len(ip) + Len(fp) > 0

DecimalVal(m) ==
    LET p == FirstIdx(m, {"."})
        ip == IF p = 0 THEN m ELSE SubSeq(m, 1, p - 1)
        fp == IF p = 0 THEN <<>> ELSE SubSeq(m, p + 1, Len(m))
    IN  Frac(DigitsVal(ip \o fp), Pow10(Len(fp)))

ExponentOK(x) == Unsigned(x) # <<>> /\ AllDigits(Unsigned(x))

ParseFloat(s) ==
    LET t == Strip(s)
        b == Unsigned(t)
        e == FirstIdx(b, {"e", "E"})
        m == IF e = 0 THEN b ELSE SubSeq(b, 1, e - 1)
        x == IF e = 0 THEN <<>> ELSE SubSeq(b, e + 1, Len(b))
        k == SignOf(x) * DigitsVal(Unsigned(x))
    IN  IF Upper(b) = <<"N", "A", "N">> THEN [ok |-> TRUE, val |-> NaN]
        ELSE IF ~DecimalOK(m) \/ (e # 0 /\ ~ExponentOK(x)) THEN [ok |-> FALSE, val |-> R(0)]
        ELSE [ok |-> TRUE,
              val |-> FMul(R(SignOf(t)),
                           IF e = 0 THEN DecimalVal(m)
                           ELSE IF k >= 0 THEN FMul(DecimalVal(m), R(Pow10(k)))
                           ELSE FDiv(DecimalVal(m), R(Pow10(-k))))]

\* a plausible slip: the pattern also keeps the thousands separator
StripNonMoney_KeepComma(s) == SelectSeq(s, LAMBDA c : c \in Digits \cup {".", "-", ","})

\* re.sub(r"[^\d.\-]", "", s)
StripNonMoney(s) == SelectSeq(s, LAMBDA c : c \in Digits \cup {".", "-"})

money_to_float(x) ==
    IF x.t = "none" \/ x = Str(<<>>) THEN R(0)
    ELSE IF x.t = "num" THEN FloatOf(x)
    ELSE LET s == StripNonMoney(PyStr(x))
             p == ParseFloat(s)
         IN  IF s # <<>> /\ p.ok THEN p.val ELSE R(0)

num_or_zero(x) ==
    CASE x.t = "num" -> FloatOf(x)
      [] x.t = "str" -> (LET p == ParseFloat(x.s) IN IF p.ok THEN p.val ELSE R(0))
      [] OTHER -> R(0)

(***************************************************************************)
(* get_product_status: the tier, its label and its description.  (The      *)
(* labels are the source's without their leading emoji.)                   *)
(***************************************************************************)
YES == <<"Y", "E", "S">>

\* a plausible slip: the boundary current_stock = reorder_level is not low
IsLow_Strict(current_stock, reorder_level) == FLt(current_stock, reorder_level)

\* `current_stock <= reorder_level`
IsLow(current_stock, reorder_level) == FLe(current_stock, reorder_level)

\* a plausible slip: any non-blank flag text counts as a manual order
IsManual_AnyFlag(reorder_required) == Strip(PyStr(reorder_required)) # <<>>

\* a plausible slip: the manual-order branch is missing
IsManual_Never(reorder_required) == FALSE

\* `str(reorder_required).strip().upper() == "YES"`
IsManual(reorder_required) == Upper(Strip(PyStr(reorder_required))) = YES

\* a plausible slip: the warning checks come before the critical checks
get_product_status_WarningFirst(current_stock, reorder_level, reorder_required) ==
    IF FLe(current_stock, reorder_level)
    THEN <<"warning", "Low Stock", "Order soon - Below reorder level">>
    ELSE IF Upper(Strip(PyStr(reorder_required))) = YES
    THEN <<"warning", "Manual Order", "Manual reorder flagged">>
    ELSE IF FEq(current_stock, R(0))
    THEN <<"critical", "Out of Stock", "Immediate action required - Zero inventory">>
    ELSE IF FLe(current_stock, FMul(reorder_level, Frac(1, 2)))
    THEN <<"critical", "Critical Low", "Order immediately - Below 50% of reorder level">>
    ELSE <<"success", "In Stock", "Stock levels satisfactory">>

get_product_status(current_stock, reorder_level, reorder_required) ==
    IF FEq(current_stock, R(0))
    THEN <<"critical", "Out of Stock", "Immediate action required - Zero inventory">>
    ELSE IF FLe(current_stock, FMul(reorder_level, Frac(1, 2)))
    THEN <<"critical", "Critical Low", "Order immediately - Below 50% of reorder level">>
    ELSE IF IsLow(current_stock, reorder_level)
    THEN <<"warning", "Low Stock", "Order soon - Below reorder level">>
    ELSE IF IsManual(reorder_required)
    THEN <<"warning", "Manual Order", "Manual reorder flagged">>
    ELSE <<"success", "In Stock", "Stock levels satisfactory">>

(***************************************************************************)
(* clean_and_validate_data                                                 *)
(***************************************************************************)
MapSeq(f(_), s) == [i \in 1..Len(s) |-> f(s[i])]

\* `if x < 0: x = 0`
ClampNeg(x) == IF FLt(x, R(0)) THEN R(0) ELSE x

\* a plausible slip: the field is copied without being trimmed
StrippedStr_Untrimmed(record, key) == Str(PyStr(Get(record, key, Str(<<>>))))

\* str(record.get(key, "")).strip()
StrippedStr(record, key) == Str(Strip(PyStr(Get(record, key, Str(<<>>)))))

\* a plausible slip: only the identifier is required
RawKept_IdOnly(record) == Truthy(Get1(record, "RM ID"))

\* a plausible slip: a record whose stock does not parse is lost
RawKept_NumericStock(record) ==
    /\ Truthy(Get1(record, "RM ID")) /\ Truthy(Get1(record, "Product Name"))
    /\ LET v == Get(record, "Current Stock", IntV(0))
       IN  v.t = "num" \/ (v.t = "str" /\ ParseFloat(v.s).ok)

\* a catalog record passes `not record.get("RM ID") or not record.get("Product Name")`
RawKept(record) == Truthy(Get1(record, "RM ID")) /\ Truthy(Get1(record, "Product Name"))

\* unit_cost before clamping: the average cost is the default of the lookup
RawUnitCost(record) ==
    money_to_float(Get(record, "Cost per Unit", Get(record, "Avg. Cost per Unit", IntV(0))))

CleanRawRecord(record) ==
    LET current_stock == ClampNeg(num_or_zero(Get(record, "Current Stock", IntV(0))))
        unit_cost == ClampNeg(RawUnitCost(record))
        reorder_level == ClampNeg(money_to_float(Get(record, "Reorder Level", IntV(0))))
    IN  [k \in {"RM ID", "Product Name", "Unit", "Current Stock", "Cost per Unit",
                "Avg. Cost per Unit", "Reorder Level", "Re-Order Required"} |->
           CASE k = "RM ID" -> StrippedStr(record, "RM ID")
             [] k = "Product Name" -> StrippedStr(record, "Product Name")
             [] k = "Unit" -> StrippedStr(record, "Unit")
             [] k = "Current Stock" -> Num(current_stock)
             [] k = "Cost per Unit" -> Num(unit_cost)
             [] k = "Avg. Cost per Unit" -> Num(unit_cost)
             [] k = "Reorder Level" -> Num(reorder_level)
             [] OTHER -> Str(Upper(Strip(PyStr(Get(record, "Re-Order Required", Str(<<>>))))))]

\* a plausible slip: the cost test of the second `continue` is missing
InKept_NoCost(record) ==
    /\ Truthy(Get1(record, "Product Name"))
    /\ Truthy(Get1(record, "Quantity In"))
    /\ ~FLe(num_or_zero(Get(record, "Quantity In", IntV(0))), R(0))

\* a plausible slip: the quantity test of the second `continue` is missing
InKept_NoSign(record) ==
    /\ Truthy(Get1(record, "Product Name"))
    /\ Truthy(Get1(record, "Quantity In"))
    /\ ~FLe(money_to_float(Get(record, "Cost Per Unit", IntV(0))), R(0))

\* a plausible slip: the first test accepts the alias "Quantity" as well
InKept_Alias(record) ==
    /\ Truthy(Get1(record, "Product Name"))
    /\ Truthy(Get1(record, "Quantity In")) \/ Truthy(Get1(record, "Quantity"))
    /\ ("Quantity In" \in DOMAIN record =>
            ~FLe(num_or_zero(Get(record, "Quantity In", IntV(0))), R(0)))
    /\ ~FLe(money_to_float(Get(record, "Cost Per Unit", IntV(0))), R(0))

\* an inbound record passes both `continue` tests
InKept(record) ==
    /\ Truthy(Get1(record, "Product Name"))
    /\ Truthy(Get1(record, "Quantity In"))
    /\ ~FLe(num_or_zero(Get(record, "Quantity In", IntV(0))), R(0))
    /\ ~FLe(money_to_float(Get(record, "Cost Per Unit", IntV(0))), R(0))

CleanInRecord(record) ==
    LET quantity_in == num_or_zero(Get(record, "Quantity In", IntV(0)))
        cost_per_unit == money_to_float(Get(record, "Cost Per Unit", IntV(0)))
    IN  [k \in {"Date", "Product Name", "Quantity In", "Cost Per Unit", "Total Cost",
                "RM ID", "Product ID"} |->
           CASE k = "Date" -> Get(record, "Date", Str(<<>>))
             [] k = "Product Name" -> StrippedStr(record, "Product Name")
             [] k = "Quantity In" -> Num(quantity_in)
             [] k = "Cost Per Unit" -> Num(cost_per_unit)
             [] k = "Total Cost" -> Num(FMul(quantity_in, cost_per_unit))
             [] k = "RM ID" -> StrippedStr(record, "RM ID")
             [] OTHER -> StrippedStr(record, "Product ID")]

\* an outbound record passes both `continue` tests
OutKept(record) ==
    /\ Truthy(Get1(record, "Product Name"))
    /\ Truthy(Get1(record, "Quantity Out"))
    /\ ~FLe(num_or_zero(Get(record, "Quantity Out", IntV(0))), R(0))

CleanOutRecord(record) ==
    [k \in {"Date", "Product Name", "Quantity Out", "RM ID", "Product ID", "Remarks"} |->
       CASE k = "Date" -> Get(record, "Date", Str(<<>>))
         [] k = "Product Name" -> StrippedStr(record, "Product Name")
         [] k = "Quantity Out" -> Num(num_or_zero(Get(record, "Quantity Out", IntV(0))))
         [] k = "RM ID" -> StrippedStr(record, "RM ID")
         [] k = "Product ID" -> StrippedStr(record, "Product ID")
         [] OTHER -> StrippedStr(record, "Remarks")]

clean_and_validate_data(d) ==
    [k \in {"raw_data", "in_data", "out_data", "inventory_data", "supplier_data",
            "staff_data", "partner_data"} |->
       CASE k = "raw_data" -> MapSeq(CleanRawRecord, SelectSeq(Get(d, "raw_data", <<>>), RawKept))
         [] k = "in_data" -> MapSeq(CleanInRecord, SelectSeq(Get(d, "in_data", <<>>), InKept))
         [] k = "out_data" -> MapSeq(CleanOutRecord, SelectSeq(Get(d, "out_data", <<>>), OutKept))
         [] OTHER -> Get(d, k, <<>>)]

(***************************************************************************)
(* calculate_inventory_metrics                                             *)
(***************************************************************************)
RECURSIVE FSum(_)
FSum(s) == IF s = <<>> THEN R(0) ELSE FAdd(FSum(SubSeq(s, 1, Len(s) - 1)), s[Len(s)])

Count(s, P(_)) == Len(SelectSeq(s, P))

\* a plausible slip: the value adds where it should multiply
ItemValue_Added(current_stock, unit_cost) == FAdd(current_stock, unit_cost)

\* item_value = current_stock * unit_cost
ItemValue(current_stock, unit_cost) == FMul(current_stock, unit_cost)

\* the locals of one iteration of the loop over cleaned_data["raw_data"]
InventoryLine(record) ==
    LET current_stock == num_or_zero(Get(record, "Current Stock", IntV(0)))
        unit_cost == money_to_float(Get(record, "Cost per Unit", IntV(0)))
        reorder_level == money_to_float(Get(record, "Reorder Level", IntV(0)))
        reorder_required == Get(record, "Re-Order Required", Str(<<>>))
        st == get_product_status(current_stock, reorder_level, reorder_required)
    IN  [current_stock |-> current_stock,
         unit_cost |-> unit_cost,
         reorder_level |-> reorder_level,
         reorder_required |-> reorder_required,
         rm_id |-> Get(record, "RM ID", Str(<<>>)),
         product_name |-> Get(record, "Product Name", Str(<<>>)),
         item_value |-> ItemValue(current_stock, unit_cost),
         status |-> st[1],
         status_text |-> st[2],
         status_desc |-> st[3],
         reorder_value |-> FMul(reorder_level, unit_cost)]

\* a plausible slip: every critical line is labelled High
Priority_NoMedium(line) == IF line.status = "critical" THEN "High" ELSE "Low"

\* the priority label of an alerted line
Priority(line) ==
    IF line.status = "critical"
    THEN (IF FEq(line.current_stock, R(0)) THEN "High" ELSE "Medium")
    ELSE "Low"

\* the dict appended to metrics["alert_items"] for an alerted line
AlertItem(line) ==
    [product |-> line.product_name,
     rm_id |-> line.rm_id,
     current_stock |-> line.current_stock,
     reorder_level |-> line.reorder_level,
     unit_cost |-> line.unit_cost,
     status |-> line.status,
     status_text |-> line.status_text,
     status_desc |-> line.status_desc,
     priority |-> Priority(line),
     est_reorder_value |-> line.reorder_value,
     stock_value |-> line.item_value]

\* the line takes one of the two alert branches
Alerted(line) == line.status = "critical" \/ line.status = "warning"

HIGH_VALUE == 10000

\* a plausible slip: the quantities are read under the alias "Quantity"
TotalQuantity_Alias(records, field) ==
    FSum([i \in 1..Len(records) |-> num_or_zero(Get(records[i], "Quantity", IntV(0)))])

\* the loops that add up metrics["total_in"] and metrics["total_out"]
TotalQuantity(records, field) ==
    FSum([i \in 1..Len(records) |-> num_or_zero(Get(records[i], field, IntV(0)))])

\* a plausible slip: a value of exactly the threshold counts as high
IsHighValue_Inclusive(item_value) == FLe(R(HIGH_VALUE), item_value)

\* `if item_value > 10000`
IsHighValue(item_value) == FGt(item_value, R(HIGH_VALUE))

\* a plausible slip: the average is taken without the `total_units > 0` test
AvgCost_Unguarded(total_cost, total_units) == FDiv(total_cost, R(total_units))

\* metrics["avg_cost_per_unit"]
AvgCost(total_cost, total_units) ==
    IF total_units > 0 THEN FDiv(total_cost, R(total_units)) ELSE R(0)

\* avg_stock = total_value / max(total_products, 1)
AvgStock(total_value, total_products) ==
    FDiv(total_value, R(IF total_products > 1 THEN total_products ELSE 1))

\* metrics["stock_turnover_rate"]
TurnoverRate(total_out, avg_stock) ==
    IF FGt(avg_stock, R(0)) THEN FDiv(total_out, avg_stock) ELSE R(0)

\* a plausible slip: the `else` is missing, a zero stock counts twice
IsCriticalLow_AnyCritical(line) == line.status = "critical"

\* the `else` branch of `if current_stock == 0` under status "critical"
IsCriticalLow(line) == line.status = "critical" /\ ~FEq(line.current_stock, R(0))

\* the metrics dict returned for the iterations ls over cleaned data c
MetricsOf(c, ls) ==
    LET total_products == Len(c["raw_data"])
        total_value == FSum([i \in 1..Len(ls) |-> ls[i].item_value])
        total_out == TotalQuantity(c["out_data"], "Quantity Out")
        total_cost == FSum([i \in 1..Len(ls) |-> ls[i].unit_cost])
        total_units == Len(ls)
        alerted == SelectSeq(ls, Alerted)
        avg_stock == AvgStock(total_value, total_products)
    IN  [total_products |-> total_products,
         total_value |-> total_value,
         critical_items |-> Count(ls, IsCriticalLow),
         low_stock_items |-> Count(ls, LAMBDA l : l.status = "warning"),
         out_of_stock_items |->
             Count(ls, LAMBDA l : l.status = "critical" /\ FEq(l.current_stock, R(0))),
         high_value_items |-> Count(ls, LAMBDA l : IsHighValue(l.item_value)),
         total_in |-> TotalQuantity(c["in_data"], "Quantity In"),
         total_out |-> total_out,
         alert_items |-> MapSeq(AlertItem, alerted),
         expiring_soon |-> 0,
         fifo_items |-> <<>>,
         avg_cost_per_unit |-> AvgCost(total_cost, total_units),
         total_reorder_value |-> FSum([i \in 1..Len(alerted) |-> alerted[i].reorder_value]),
         stock_turnover_rate |-> TurnoverRate(total_out, avg_stock)]

calculate_inventory_metrics(d) ==
    LET c == clean_and_validate_data(d)
    IN  MetricsOf(c, MapSeq(InventoryLine, c["raw_data"]))

(***************************************************************************)
(* show_raw_material_master: the entry built for one raw catalog record by *)
(* the loop over data["raw_data"], with the filter "All" and no search     *)
(* term; the sort that follows only reorders the entries.                  *)
(***************************************************************************)
MasterProduct(record) ==
    LET current_stock == num_or_zero(Get(record, "Current Stock", IntV(0)))
        unit_cost == RawUnitCost(record)
        reorder_level == money_to_float(Get(record, "Reorder Level", IntV(0)))
        reorder_required == Get(record, "Re-Order Required", Str(<<>>))
        st == get_product_status(current_stock, reorder_level, reorder_required)
    IN  [name |-> Get(record, "Product Name", Get(record, "RM ID", Str(<<"U", "n", "k", "n", "o", "w", "n">>))),
         rm_id |-> Get(record, "RM ID", Str(<<>>)),
         current_stock |-> current_stock,
         reorder_level |-> reorder_level,
         unit_cost |-> unit_cost,
         total_value |-> FMul(current_stock, unit_cost),
         unit |-> Get(record, "Unit", Str(<<>>)),
         status |-> st[1],
         status_text |-> st[2],
         status_desc |-> st[3]]

(***************************************************************************)
(* show_reorder_alerts: the rows of the two alert tables, each with the    *)
(* figure of its "Reorder Qty" column.                                     *)
(***************************************************************************)
AlertRow(alert) ==
    [alert |-> alert, suggested_qty |-> FSub(alert.reorder_level, alert.current_stock)]

show_reorder_alerts(m) ==
    [name |-> "alerts",
     critical_alerts |->
         MapSeq(AlertRow, SelectSeq(m.alert_items, LAMBDA item : item.status = "critical")),
     warning_alerts |->
         MapSeq(AlertRow, SelectSeq(m.alert_items, LAMBDA item : item.status = "warning"))]

(***************************************************************************)
(* The explored inputs: the three record collections handed to the engine. *)
(***************************************************************************)
SeqsUpTo(S, n) == UNION {[1..k -> S] : k \in 0..n}

Without(record, keys) == [k \in DOMAIN record \ keys |-> record[k]]

T_A == Str(<<"A">>)
T_B == Str(<<"B">>)
T_C == Str(<<"C">>)
T_Bean == Str(<<"B", "e", "a", "n">>)
T_Oca == Str(<<"O", "c", "a">>)
T_Empty == Str(<<>>)
T_Blank == Str(<<" ">>)
T_abc == Str(<<"a", "b", "c">>)
T_nan == Str(<<"n", "a", "n">>)
T_Money == Str(<<"₹", "1", ",", "6", "5", "0">>)

CatalogRecord(id, name, stock, cost, level, flag) ==
    ("RM ID" :> id) @@ ("Product Name" :> name) @@ ("Unit" :> Str(<<"e", "a">>))
    @@ ("Current Stock" :> stock) @@ ("Cost per Unit" :> cost) @@ ("Reorder Level" :> level)
    @@ ("Re-Order Required" :> flag)

InRecord(id, name, qty, cost) ==
    ("Date" :> T_Empty) @@ ("RM ID" :> id) @@ ("Product Name" :> name)
    @@ ("Quantity In" :> qty) @@ ("Cost Per Unit" :> cost)

OutRecord(id, name, qty) ==
    ("Date" :> T_Empty) @@ ("RM ID" :> id) @@ ("Product Name" :> name)
    @@ ("Quantity Out" :> qty) @@ ("Remarks" :> T_Blank)

Dataset(raw, in, out) == ("raw_data" :> raw) @@ ("in_data" :> in) @@ ("out_data" :> out)

\* a value that stands for "the key is absent" while a record is being built
ABSENT == [t |-> "absent", s |-> <<>>, n |-> 0, d |-> 1]
Present(record) == [k \in {j \in DOMAIN record : record[j] # ABSENT} |-> record[k]]

Wheat == CatalogRecord(T_A, T_Bean, IntV(90), IntV(40), IntV(100), T_Empty)

StockValues ==
    {IntV(0), IntV(3), IntV(5), IntV(6), IntV(12), IntV(90), IntV(-5), None, T_abc, T_nan,
     Str(<<"2", ".", "5">>), Str(<<" ", "6", " ">>)}
LevelValues ==
    {IntV(0), IntV(5), IntV(10), IntV(100), IntV(-5), IntV(-20), T_Empty, Str(<<"5", ".", "5">>)}
FlagValues ==
    {ABSENT, None, T_Empty, Str(<<"y", "e", "s">>), Str(<<" ", "Y", "e", "s", " ">>),
     Str(YES), Str(<<"N", "O">>), Str(<<"Y", "E", "S", "S">>)}
CostValues == {ABSENT, None, T_Empty, IntV(0), Str(<<"0">>), IntV(40), IntV(-5), T_Money}
AvgCostValues == {ABSENT, IntV(40), T_Money}
IdValues == {ABSENT, None, T_Empty, T_Blank, T_A, Str(<<" ", "A", " ">>), IntV(0), IntV(7)}
NameValues == {ABSENT, None, T_Empty, T_Blank, T_Bean, IntV(0)}
QuantityValues ==
    {ABSENT, None, T_Empty, IntV(0), Str(<<"0">>), IntV(5), Str(<<"5">>), IntV(-5),
     Str(<<"-", "5">>), T_abc, T_nan, Str(<<"1", "e", "2">>), Str(<<"2", ".", "5">>)}
InCostValues == {ABSENT, T_Empty, IntV(0), IntV(10), IntV(-1), T_Money}

\* one catalog record whose stock, reorder level and flag vary
StatusCatalogs ==
    {<<Present(CatalogRecord(T_A, T_Bean, stock, IntV(40), level, flag))>> :
        stock \in StockValues, level \in LevelValues, flag \in FlagValues}

\* one catalog record whose two cost fields vary
CostCatalogs ==
    {<<Present(CatalogRecord(T_A, T_Bean, stock, cost, IntV(10), T_Empty)
               @@ ("Avg. Cost per Unit" :> avg))>> :
        stock \in {IntV(5), IntV(12), IntV(250)}, cost \in CostValues, avg \in AvgCostValues}

\* one catalog record whose identifier and name vary
IdentCatalogs ==
    {<<Present(CatalogRecord(id, name, IntV(5), IntV(40), IntV(10), T_Empty))>> :
        id \in IdValues, name \in NameValues}

\* one inbound record whose name, quantity, cost and "Quantity" alias vary
RichIn ==
    {<<Present(InRecord(T_A, name, qty, cost) @@ ("Quantity" :> alias))>> :
        name \in {ABSENT, T_Empty, T_Blank, T_Bean}, qty \in QuantityValues,
        cost \in InCostValues, alias \in {ABSENT, IntV(5)}}

\* one outbound record whose name and quantity vary
RichOut ==
    {<<Present(OutRecord(T_A, name, qty))>> :
        name \in {ABSENT, T_Empty, T_Blank, T_Bean}, qty \in QuantityValues}

CatalogBase ==
    {Wheat,
     CatalogRecord(T_A, T_Bean, IntV(5), IntV(40), IntV(100), T_Empty),
     CatalogRecord(T_B, T_Oca, IntV(0), IntV(250), IntV(20), T_Empty),
     CatalogRecord(T_C, T_Oca, IntV(10), T_Money, IntV(5), Str(<<"y", "e", "s">>)),
     CatalogRecord(T_C, T_Empty, IntV(10), IntV(40), IntV(5), T_Empty),
     CatalogRecord(T_B, T_Bean, IntV(12), IntV(40), IntV(5), Str(<<"N", "O">>)),
     CatalogRecord(T_C, T_Bean, T_abc, Str(<<"1", ".", "2", ".", "3">>), Str(<<"-">>), T_Empty)}

InBase ==
    {InRecord(T_A, T_Bean, IntV(150), IntV(10)),
     InRecord(T_A, T_Bean, IntV(5), T_Empty),
     InRecord(T_B, T_Oca, Str(<<"-", "5">>), IntV(10)),
     InRecord(T_Empty, T_abc, IntV(7), IntV(1)) @@ ("Product ID" :> Str(<<" ", "P", " ">>))}

OutBase ==
    {OutRecord(T_A, T_Bean, IntV(60)),
     OutRecord(T_B, T_Oca, IntV(0)),
     OutRecord(T_Empty, T_abc, Str(<<"2", ".", "5">>))}

Inputs ==
    {Dataset(raw, <<>>, <<>>) : raw \in StatusCatalogs \cup CostCatalogs \cup IdentCatalogs}
    \cup {Dataset(<<Wheat>>, in, <<>>) : in \in RichIn}
    \cup {Dataset(<<Wheat>>, <<>>, out) : out \in RichOut}
    \cup {Dataset(raw, <<>>, <<>>) : raw \in SeqsUpTo(CatalogBase, MaxCatalog)}
    \cup {Dataset(raw, <<InRecord(T_A, T_Bean, IntV(150), IntV(10))>>,
                       <<OutRecord(T_A, T_Bean, IntV(60))>>) :
              raw \in SeqsUpTo(CatalogBase, MaxCatalog)}
    \cup {Dataset(raw, in, out) : raw \in {<<>>, <<Wheat>>},
                                   in \in SeqsUpTo(InBase, MaxIn),
                                   out \in SeqsUpTo(OutBase, MaxOut)}
    \cup {Without(Dataset(<<Wheat>>, <<>>, <<>>), keys) :
              keys \in SUBSET {"raw_data", "in_data", "out_data"}}

(***************************************************************************)
(* One run of the script: the loaded data, then the metrics, then the      *)
(* Reorder Reminders page.                                                 *)
(***************************************************************************)
Unset == <<>>

\* the process state is not part of a run of the engine on its own
AppUnset ==
    /\ session = Unset
    /\ cache = Unset
    /\ memo = Unset
    /\ now = 0
    /\ world = Unset
    /\ run = Unset

Init ==
    /\ data \in Inputs
    /\ cleaned_data = Unset
    /\ lines = Unset
    /\ metrics = Unset
    /\ page = Unset
    /\ pc = "loaded"
    /\ arg = Unset
    /\ result = Unset
    /\ AppUnset

CalculateInventoryMetrics ==
    /\ pc = "loaded"
    /\ cleaned_data' = clean_and_validate_data(data)
    /\ lines' = MapSeq(InventoryLine, cleaned_data'["raw_data"])
    /\ metrics' = MetricsOf(cleaned_data', lines')
    /\ pc' = "metrics"
    /\ UNCHANGED <<data, page, arg, result>>
    /\ UNCHANGED appvars

ShowReorderAlerts ==
    /\ pc = "metrics"
    /\ page' = show_reorder_alerts(metrics)
    /\ pc' = "page"
    /\ UNCHANGED <<data, cleaned_data, lines, metrics, arg, result>>
    /\ UNCHANGED appvars

Next == CalculateInventoryMetrics \/ ShowReorderAlerts

Spec == Init /\ [][Next]_vars

(***************************************************************************)
(* money_to_float on its own: one call on a scalar, then a second call on  *)
(* the float the first one returned.                                       *)
(***************************************************************************)
MoneyChars == {"1", "5", ".", "-", ",", "₹", "a", " "}

MoneyInputs ==
    {Str(s) : s \in SeqsUpTo(MoneyChars, MaxLen)}
    \cup {T_Money, T_abc, T_nan, Str(<<"1", ".", "2", ".", "3">>),
          Str(<<"-", "1", ",", "6", "5", "0", ".", "5">>)}
    \cup {None, IntV(0), IntV(5), IntV(-4), Num(Frac(3, 2)), Num(NaN)}

MoneyInit ==
    /\ arg \in MoneyInputs
    /\ result = Unset
    /\ pc = "call"
    /\ data = Unset
    /\ cleaned_data = Unset
    /\ lines = Unset
    /\ metrics = Unset
    /\ page = Unset
    /\ AppUnset

MoneyToFloat ==
    /\ pc = "call"
    /\ result' = money_to_float(arg)
    /\ pc' = "returned"
    /\ UNCHANGED <<arg, data, cleaned_data, lines, metrics, page>>
    /\ UNCHANGED appvars

MoneyToFloatAgain ==
    /\ pc = "returned"
    /\ arg' = Num(result)
    /\ result' = money_to_float(arg')
    /\ pc' = "again"
    /\ UNCHANGED <<data, cleaned_data, lines, metrics, page>>
    /\ UNCHANGED appvars

MoneyNext == MoneyToFloat \/ MoneyToFloatAgain

MoneySpec == MoneyInit /\ [][MoneyNext]_vars

(***************************************************************************)
(* load_all_data on its own.  The spreadsheet service is a record: whether *)
(* get_gspread_client returns a client, whether open_by_key succeeds, and  *)
(* for each worksheet whether it opens and its records can be read ("ok"), *)
(* it opens but get_all_records raises ("unreadable"), or worksheet()      *)
(* raises ("missing"); rows holds the records of each worksheet.           *)
(***************************************************************************)
sheet_names ==
    {"Raw Material Master", "Stock In", "Stock Out", "Inventory", "Supplier Master", "Report"}

\* a plausible slip: only the catalog sheet is treated as critical
critical_sheets_MasterOnly == {"Raw Material Master"}

critical_sheets == {"Raw Material Master", "Stock In", "Stock Out"}

sheet_data_mapping ==
    [n \in sheet_names |->
        CASE n = "Raw Material Master" -> "raw_data"
          [] n = "Stock In" -> "in_data"
          [] n = "Stock Out" -> "out_data"
          [] n = "Inventory" -> "inventory_data"
          [] n = "Supplier Master" -> "supplier_data"
          [] OTHER -> "report_data"]

DataKeys == {sheet_data_mapping[n] : n \in sheet_names}

SheetOf(key) == CHOOSE n \in sheet_names : sheet_data_mapping[n] = key

load_all_data(w) ==
    IF ~w.client THEN None
    ELSE IF ~w.opens THEN None
    ELSE LET sheets_errors == {n \in sheet_names : w.sheet[n] = "missing"}
             readable == {n \in sheet_names : w.sheet[n] = "ok"}
         IN  IF critical_sheets \cap sheets_errors # {} THEN None
             ELSE [k \in DataKeys |->
                      IF SheetOf(k) \in readable THEN w.rows[SheetOf(k)] ELSE <<>>]

\* the records of the worksheets of a small spreadsheet
SheetRows(raw) ==
    [n \in sheet_names |->
        CASE n = "Raw Material Master" -> raw
          [] n = "Stock In" -> <<InRecord(T_A, T_Bean, IntV(150), IntV(10))>>
          [] n = "Stock Out" -> <<OutRecord(T_A, T_Bean, IntV(60))>>
          [] OTHER -> <<("Name" :> T_Oca)>>]

SheetStates == {"ok", "unreadable", "missing"}

LoadWorlds ==
    {[client |-> c, opens |-> o, sheet |-> sh, rows |-> SheetRows(<<Wheat>>)] :
        c \in BOOLEAN, o \in BOOLEAN, sh \in [sheet_names -> SheetStates]}

LoadInit ==
    /\ world \in LoadWorlds
    /\ pc = "load_call"
    /\ result = Unset
    /\ arg = Unset
    /\ data = Unset
    /\ cleaned_data = Unset
    /\ lines = Unset
    /\ metrics = Unset
    /\ page = Unset
    /\ session = Unset
    /\ cache = Unset
    /\ memo = Unset
    /\ now = 0
    /\ run = Unset

LoadAllData ==
    /\ pc = "load_call"
    /\ result' = load_all_data(world)
    /\ pc' = "load_returned"
    /\ UNCHANGED <<arg, data, cleaned_data, lines, metrics, page>>
    /\ UNCHANGED appvars

LoadNext == LoadAllData

LoadSpec == LoadInit /\ [][LoadNext]_vars

(***************************************************************************)
(* main: the script runs of one browser session.  A run starts on a page   *)
(* load, on a button press or on st.rerun(); it loads the data through the *)
(* cache of load_all_data, computes the metrics through the cache of       *)
(* calculate_inventory_metrics, handles the navigation buttons, and        *)
(* renders the page of st.session_state.current_page.  Between two runs    *)
(* the clock advances and the spreadsheet service changes.                 *)
(***************************************************************************)
\* @st.cache_data(ttl=300)
TTL == 300

TickSeconds == TTL \div 2

Pages == {"dashboard", "alerts", "products", "reports", "settings"}

\* a plausible slip: the Home button leads to the settings page
NavTarget_HomeToSettings ==
    [b \in {"nav_home", "nav_dashboard", "nav_alerts", "nav_products", "nav_reports",
            "nav_settings"} |->
        CASE b = "nav_home" -> "settings"
          [] b = "nav_dashboard" -> "dashboard"
          [] b = "nav_alerts" -> "alerts"
          [] b = "nav_products" -> "products"
          [] b = "nav_reports" -> "reports"
          [] OTHER -> "settings"]

\* the page each navigation button of main stores in current_page
NavTarget ==
    [b \in {"nav_home", "nav_dashboard", "nav_alerts", "nav_products", "nav_reports",
            "nav_settings"} |->
        CASE b = "nav_home" -> "dashboard"
          [] b = "nav_dashboard" -> "dashboard"
          [] b = "nav_alerts" -> "alerts"
          [] b = "nav_products" -> "products"
          [] b = "nav_reports" -> "reports"
          [] OTHER -> "settings"]

\* the three quick-action buttons of show_inventory_sheet
QuickTarget ==
    [b \in {"quick_alerts", "quick_products", "quick_reports"} |->
        CASE b = "quick_alerts" -> "alerts"
          [] b = "quick_products" -> "products"
          [] OTHER -> "reports"]

\* the button of show_settings; its handler only shows a confirmation
SettingsButtons == {"save_settings"}

\* the buttons the page function called by main adds below the navigation
PageButtons(p) ==
    CASE p = "dashboard" -> DOMAIN QuickTarget
      [] p = "settings" -> SettingsButtons
      [] OTHER -> {}

\* the safe default metrics of main
DefaultMetrics ==
    [total_products |-> 0,
     total_value |-> R(0),
     critical_items |-> 0,
     low_stock_items |-> 0,
     out_of_stock_items |-> 0,
     high_value_items |-> 0,
     total_in |-> R(0),
     total_out |-> R(0),
     alert_items |-> <<>>,
     avg_cost_per_unit |-> R(0),
     total_reorder_value |-> R(0),
     stock_turnover_rate |-> R(0)]

\* a plausible slip: an entry of the cache never expires
CacheFresh_NoExpiry(c, t) == c # Unset

\* the cache of load_all_data holds an entry younger than the ttl
CacheFresh(c, t) == c # Unset /\ t - c.at < TTL

\* a plausible slip: main goes on when the data is None
StopsOnNone_Never(value) == FALSE

\* `if data is None: ... st.stop()`
StopsOnNone(value) == value = None

\* @st.cache_data on calculate_inventory_metrics: the entry of this input
MemoLookup(m, d) == IF d \in DOMAIN m THEN <<TRUE, m[d]>> ELSE <<FALSE, Unset>>

\* nothing on the screen yet
Blank == [shown |-> "none", buttons |-> {}, error |-> FALSE, saved |-> FALSE]

Spreadsheet(raw) ==
    [client |-> TRUE, opens |-> TRUE, sheet |-> [n \in sheet_names |-> "ok"],
     rows |-> SheetRows(raw)]

\* the spreadsheet with two contents of the catalog, and the spreadsheet out
\* of reach (open_by_key raises); the credentials are in place throughout,
\* so that get_gspread_client always returns the same client
AppWorlds ==
    {Spreadsheet(<<Wheat>>),
     Spreadsheet(<<CatalogRecord(T_B, T_Bean, IntV(12), IntV(40), IntV(5), Str(<<"N", "O">>))>>),
     [Spreadsheet(<<Wheat>>) EXCEPT !.opens = FALSE]}

AppInit ==
    /\ session = Unset
    /\ cache = Unset
    /\ memo = Unset
    /\ now = 0
    /\ world \in AppWorlds
    /\ run = Unset
    /\ page = Blank
    /\ pc = "app_idle"
    /\ data = Unset
    /\ metrics = Unset
    /\ cleaned_data = Unset
    /\ lines = Unset
    /\ arg = Unset
    /\ result = Unset

\* the script starts again from the top: on the press of button b by the
\* user, or on st.rerun() in the handler of the button `cause`; start_page
\* is current_page as it was when the user acted, and first tells the run
\* that found no current_page in the session
BeginRun(b, cause, start_page, first) ==
    /\ run' = [press |-> b, cause |-> cause, start_page |-> start_page, first |-> first,
               source |-> "pending", age |-> -1, raised |-> FALSE, hit |-> FALSE]
    /\ page' = Blank
    /\ data' = Unset
    /\ metrics' = Unset
    /\ pc' = "app_load"

Tick ==
    /\ pc = "app_idle"
    /\ now < MaxTicks * TickSeconds
    /\ now' = now + TickSeconds
    /\ UNCHANGED <<data, cleaned_data, lines, metrics, page, pc, arg, result,
                   session, cache, memo, world, run>>

WorldChange ==
    /\ pc = "app_idle"
    /\ \E w \in AppWorlds \ {world} : world' = w
    /\ UNCHANGED <<data, cleaned_data, lines, metrics, page, pc, arg, result,
                   session, cache, memo, now, run>>

\* a page load ("none") or the press of a button that is on the screen;
\* main first initialises current_page
RunStart ==
    /\ pc = "app_idle"
    /\ session' = IF "current_page" \in DOMAIN session THEN session
                  ELSE ("current_page" :> "dashboard")
    /\ \E b \in {"none"} \cup page.buttons : BeginRun(b, "none", session'["current_page"], "current_page" \notin DOMAIN session)
    /\ UNCHANGED <<cleaned_data, lines, arg, result, cache, memo, now, world>>

\* data = load_all_data(), through its cache; None stops the run
AppLoadAllData ==
    /\ pc = "app_load"
    /\ LET fresh == CacheFresh(cache, now)
           value == IF fresh THEN cache.value ELSE load_all_data(world)
       IN  /\ cache' = IF fresh THEN cache ELSE [value |-> value, at |-> now]
           /\ run' = [run EXCEPT !.source = IF fresh THEN "cache" ELSE "fetch",
                                 !.age = IF cache = Unset THEN -1 ELSE now - cache.at]
           /\ data' = value
           /\ IF StopsOnNone(value)
              THEN /\ page' = [Blank EXCEPT !.error = TRUE]
                   /\ pc' = "app_idle"
              ELSE /\ page' = page
                   /\ pc' = "app_metrics"
    /\ UNCHANGED <<cleaned_data, lines, metrics, arg, result, session, memo, now, world>>

\* metrics = calculate_inventory_metrics(data), through its cache; when the
\* call raises main takes the default metrics
AppCalculateMetrics ==
    /\ pc = "app_metrics"
    /\ LET found == MemoLookup(memo, data)
       IN  \E fault \in BOOLEAN :
               IF found[1]
               THEN /\ ~fault
                    /\ metrics' = found[2]
                    /\ memo' = memo
                    /\ run' = [run EXCEPT !.hit = TRUE]
               ELSE IF fault
               THEN /\ metrics' = DefaultMetrics
                    /\ memo' = memo
                    /\ run' = [run EXCEPT !.raised = TRUE]
               ELSE /\ metrics' = calculate_inventory_metrics(data)
                    /\ memo' = (data :> metrics') @@ memo
                    /\ run' = run
    /\ pc' = "app_nav"
    /\ UNCHANGED <<data, cleaned_data, lines, page, arg, result, session, cache, now, world>>

\* the Home button, the five page buttons and "Update Stock"
AppNavigate ==
    /\ pc = "app_nav"
    /\ IF run.press \in DOMAIN NavTarget
       THEN /\ session' = [session EXCEPT !["current_page"] = NavTarget[run.press]]
            /\ cache' = cache
            /\ BeginRun("none", run.press, run.start_page, FALSE)
       ELSE IF run.press = "nav_refresh"
       THEN /\ cache' = Unset
            /\ session' = session
            /\ BeginRun("none", run.press, run.start_page, FALSE)
       ELSE /\ page' = [page EXCEPT !.buttons = DOMAIN NavTarget \cup {"nav_refresh"}]
            /\ pc' = "app_render"
            /\ UNCHANGED <<data, metrics, session, cache, run>>
    /\ UNCHANGED <<cleaned_data, lines, arg, result, memo, now, world>>

\* the page of current_page, with its own buttons
AppRenderPage ==
    /\ pc = "app_render"
    /\ LET current_page == session["current_page"]
       IN  IF current_page = "dashboard" /\ run.press \in DOMAIN QuickTarget
           THEN /\ session' = [session EXCEPT !["current_page"] = QuickTarget[run.press]]
                /\ BeginRun("none", run.press, run.start_page, FALSE)
           ELSE /\ page' = [shown |-> current_page,
                            buttons |-> page.buttons \cup PageButtons(current_page),
                            error |-> FALSE,
                            saved |-> (current_page = "settings" /\ run.press \in SettingsButtons)]
                /\ pc' = "app_idle"
                /\ UNCHANGED <<data, metrics, session, run>>
    /\ UNCHANGED <<cleaned_data, lines, arg, result, cache, memo, now, world>>

AppNext ==
    \/ Tick
    \/ WorldChange
    \/ RunStart
    \/ AppLoadAllData
    \/ AppCalculateMetrics
    \/ AppNavigate
    \/ AppRenderPage

AppSpec == AppInit /\ [][AppNext]_vars

(***************************************************************************)
(* Properties.                                                             *)
(***************************************************************************)
Computed == pc \in {"metrics", "page"}

\* the join key of a record: its first candidate field that is non-blank
RECURSIVE KeyOf(_, _)
KeyOf(record, candidates) ==
    IF candidates = <<>> THEN <<>>
    ELSE LET v == Strip(PyStr(Get(record, Head(candidates), Str(<<>>))))
         IN  IF v # <<>> THEN v ELSE KeyOf(record, Tail(candidates))

CatalogKey(record) == KeyOf(record, <<"RM ID", "Product Name">>)
TransactionKey(record) == KeyOf(record, <<"RM ID", "Product ID", "Product Name">>)

\* the sum of a quantity field over the cleaned transactions of one key
QuantityFor(records, field, key) ==
    FSum(MapSeq(LAMBDA r : FloatOf(r[field]),
                SelectSeq(records, LAMBDA r : TransactionKey(r) = key)))

\* the raw catalog records that have an identifier and a name, in order
NamedRaw == SelectSeq(Get(data, "raw_data", <<>>),
                      LAMBDA r : Truthy(Get1(r, "RM ID")) /\ Truthy(Get1(r, "Product Name")))

\* C1 as stated: on every line currentStock is the inbound total of the
\* line's key minus its outbound total, and inventoryValue is
\* currentStock * unitCost.
C1_StockIsInMinusOut ==
    Computed =>
        \A i \in 1..Len(lines) :
            LET key == CatalogKey(cleaned_data["raw_data"][i])
            IN  /\ lines[i].current_stock =
                       FSub(QuantityFor(cleaned_data["in_data"], "Quantity In", key),
                            QuantityFor(cleaned_data["out_data"], "Quantity Out", key))
                /\ lines[i].item_value = FMul(lines[i].current_stock, lines[i].unit_cost)

\* C1 amended: there is one line per named catalog record, in order; its
\* currentStock is that record's own "Current Stock" field, read as a number
\* (0 when unparsable) and raised to 0 when negative, whatever the inbound
\* and outbound records are; inventoryValue is currentStock * unitCost.
C1_StockIsCatalogStock ==
    Computed =>
        /\ Len(lines) = Len(NamedRaw)
        /\ \A i \in 1..Len(lines) :
               LET stock == num_or_zero(Get(NamedRaw[i], "Current Stock", IntV(0)))
               IN  /\ lines[i].current_stock = (IF FLt(stock, R(0)) THEN R(0) ELSE stock)
                   /\ lines[i].item_value = FMul(lines[i].current_stock, lines[i].unit_cost)

\* C1 witness: a line of stock 5 and value 200 next to 150 units received
C1_Witness ==
    /\ Computed
    /\ \E i \in 1..Len(lines) :
           lines[i].current_stock = R(5) /\ lines[i].item_value = R(200)
    /\ metrics.total_in = R(150)

\* the manual-reorder flag of a raw record, ignoring case and whitespace
FlagIsYes(record) == Upper(Strip(PyStr(Get(record, "Re-Order Required", Str(<<>>))))) = YES

NotOk(line) == line.status # "success"

\* the position in the alert list of the entry of line i
AlertIndex(i) == Len(SelectSeq(SubSeq(lines, 1, i), NotOk))

\* C2: a line with currentStock = 0 is critical for every reorderLevel and
\* every flag, and its alert entry has priority High.
C2_ZeroStockCritical ==
    Computed =>
        \A i \in 1..Len(lines) :
            FEq(lines[i].current_stock, R(0)) =>
                /\ lines[i].status = "critical"
                /\ AlertIndex(i) \in 1..Len(metrics.alert_items)
                /\ metrics.alert_items[AlertIndex(i)].rm_id = lines[i].rm_id
                /\ metrics.alert_items[AlertIndex(i)].status = "critical"
                /\ metrics.alert_items[AlertIndex(i)].priority = "High"

\* C2 witness: zero stock with reorderLevel 0 and the flag set, classified
C2_Witness ==
    /\ Computed
    /\ \E i \in 1..Len(lines) :
           /\ lines[i].current_stock = R(0)
           /\ lines[i].reorder_level = R(0)
           /\ lines[i].reorder_required = Str(YES)
           /\ lines[i].status = "critical"

\* C3: a line with reorderLevel / 2 < currentStock <= reorderLevel is
\* warning, whatever its flag.
C3_BetweenHalfAndLevelWarning ==
    Computed =>
        \A i \in 1..Len(lines) :
            (/\ FLt(lines[i].reorder_level, FMul(R(2), lines[i].current_stock))
             /\ FLe(lines[i].current_stock, lines[i].reorder_level))
                => lines[i].status = "warning"

\* C3 witness: stock equal to the reorder level, and stock just above half
\* of it with the flag set
C3_Witness ==
    /\ Computed
    /\ \E i \in 1..Len(lines) :
           /\ lines[i].reorder_level = R(5)
           /\ lines[i].current_stock \in {R(5), R(3)}
           /\ lines[i].reorder_required = Str(YES)
           /\ lines[i].status = "warning"

\* C4: a line with currentStock > reorderLevel whose flag is not YES is ok
\* ("success") and has no entry in the alert list.
C4Case(i) ==
    /\ FGt(lines[i].current_stock, lines[i].reorder_level)
    /\ ~FlagIsYes(NamedRaw[i])

C4_AboveLevelUnflaggedOk ==
    Computed =>
        /\ \A i \in 1..Len(lines) : C4Case(i) => lines[i].status = "success"
        /\ Len(metrics.alert_items) + Cardinality({i \in 1..Len(lines) : C4Case(i)})
               <= Len(lines)

\* C4 witness: a well-stocked line flagged NO, and no alert
C4_Witness ==
    /\ Computed
    /\ \E i \in 1..Len(lines) :
           /\ C4Case(i)
           /\ lines[i].reorder_required = Str(<<"N", "O">>)
           /\ lines[i].status = "success"
    /\ metrics.alert_items = <<>>

\* C5: a line that is not critical is warning exactly when currentStock <=
\* reorderLevel or its flag is YES ignoring case and surrounding whitespace,
\* and is ok otherwise.
C5_WarningIffLowOrFlagged ==
    Computed =>
        \A i \in 1..Len(lines) :
            lines[i].status # "critical" =>
                /\ lines[i].status \in {"warning", "success"}
                /\ lines[i].status = "warning" <=>
                       (\/ FLe(lines[i].current_stock, lines[i].reorder_level)
                        \/ FlagIsYes(NamedRaw[i]))

\* C5 witness: stock above the level, the raw flag written " Yes "
C5_Witness ==
    /\ Computed
    /\ \E i \in 1..Len(lines) :
           /\ FGt(lines[i].current_stock, lines[i].reorder_level)
           /\ Get1(NamedRaw[i], "Re-Order Required") = Str(<<" ", "Y", "e", "s", " ">>)
           /\ lines[i].status = "warning"

\* C6: the alert list holds exactly the lines whose tier is not ok, one
\* entry per line and in order; the priority is High for an out-of-stock
\* line, Medium for another critical line and Low for a warning line; the
\* estimated reorder value is reorderLevel * unitCost.
C6_AlertListAndPriority ==
    Computed =>
        LET alerted == SelectSeq(lines, NotOk)
        IN  /\ Len(metrics.alert_items) = Len(alerted)
            /\ \A k \in 1..Len(alerted) :
                   LET item == metrics.alert_items[k]
                   IN  /\ item.rm_id = alerted[k].rm_id
                       /\ item.product = alerted[k].product_name
                       /\ item.current_stock = alerted[k].current_stock
                       /\ item.status = alerted[k].status
                       /\ item.status \in {"critical", "warning"}
                       /\ item.priority =
                              (IF FEq(item.current_stock, R(0)) THEN "High"
                               ELSE IF item.status = "critical" THEN "Medium"
                               ELSE "Low")
                       /\ item.est_reorder_value = FMul(item.reorder_level, item.unit_cost)

\* C6 witness: an ok line next to a critical one that is not out of stock
C6_Witness ==
    /\ Computed
    /\ Len(lines) = 2
    /\ \E i \in 1..Len(lines) : lines[i].status = "success"
    /\ Len(metrics.alert_items) = 1
    /\ metrics.alert_items[1].priority = "Medium"
    /\ metrics.alert_items[1].est_reorder_value = R(4000)

Rows == page.critical_alerts \o page.warning_alerts

\* C7: on the Reorder Reminders page the suggested quantity of every
\* alerted line is max(reorderLevel - currentStock, 0), hence never negative.
C7_ReorderQtyClamped ==
    pc = "page" =>
        \A k \in 1..Len(Rows) :
            LET need == FSub(Rows[k].alert.reorder_level, Rows[k].alert.current_stock)
            IN  /\ Rows[k].suggested_qty = (IF FLt(need, R(0)) THEN R(0) ELSE need)
                /\ ~FLt(Rows[k].suggested_qty, R(0))

\* the inbound and outbound records of the input
RawIn == Get(data, "in_data", <<>>)
RawOut == Get(data, "out_data", <<>>)

HasName(record) == Truthy(Get1(record, "Product Name"))

\* the quantity of a raw record as a number
QuantityOf(record, field) == num_or_zero(Get(record, field, IntV(0)))

StrictlyPositive(q) == q.d # 0 /\ q.n > 0

Quantities(records, field) == MapSeq(LAMBDA r : FloatOf(r[field]), records)

NotNonPositive(q) == q.d = 0 \/ q.n > 0

BadQuantity(record, field) ==
    LET q == Get1(record, field)
    IN  \/ q.t = "none"
        \/ q.t = "num" /\ q.d # 0 /\ q.n <= 0
        \/ q.t = "str" /\ (~ParseFloat(q.s).ok \/ FLe(ParseFloat(q.s).val, R(0)))

RemoveAt(s, i) == SubSeq(s, 1, i - 1) \o SubSeq(s, i + 1, Len(s))

\* C9: a transaction whose quantity is zero, negative, missing or
\* unparsable is dropped: the cleaned collections and both totals are what
\* they would be without that record, and no cleaned quantity is <= 0.
C9_BadQuantityDropped ==
    Computed =>
        /\ \A i \in 1..Len(RawIn) :
               BadQuantity(RawIn[i], "Quantity In") =>
                   LET rest == [data EXCEPT !["in_data"] = RemoveAt(RawIn, i)]
                   IN  /\ cleaned_data["in_data"] = clean_and_validate_data(rest)["in_data"]
                       /\ metrics.total_in = calculate_inventory_metrics(rest).total_in
        /\ \A i \in 1..Len(RawOut) :
               BadQuantity(RawOut[i], "Quantity Out") =>
                   LET rest == [data EXCEPT !["out_data"] = RemoveAt(RawOut, i)]
                   IN  /\ cleaned_data["out_data"] = clean_and_validate_data(rest)["out_data"]
                       /\ metrics.total_out = calculate_inventory_metrics(rest).total_out
        /\ \A i \in 1..Len(cleaned_data["in_data"]) :
               ~FLe(FloatOf(cleaned_data["in_data"][i]["Quantity In"]), R(0))
        /\ \A i \in 1..Len(cleaned_data["out_data"]) :
               ~FLe(FloatOf(cleaned_data["out_data"][i]["Quantity Out"]), R(0))

\* C9 witness: a record of quantity "-5" next to a counted one
C9_Witness ==
    /\ Computed
    /\ Len(RawIn) = 2
    /\ Get1(RawIn[2], "Quantity In") = Str(<<"-", "5">>)
    /\ Len(cleaned_data["in_data"]) = 1
    /\ metrics.total_in = R(150)

\* the cost a raw catalog record resolves to: the primary field when it is
\* present and non-zero after normalisation, else the average field, else 0
FallbackCost(record) ==
    LET primary == money_to_float(Get(record, "Cost per Unit", IntV(0)))
    IN  IF "Cost per Unit" \in DOMAIN record /\ ~FEq(primary, R(0)) THEN primary
        ELSE IF "Avg. Cost per Unit" \in DOMAIN record
        THEN money_to_float(record["Avg. Cost per Unit"])
        ELSE R(0)

\* C10: the cleaned unit cost of every catalog record is the primary cost
\* when present and non-zero, else the average cost, else 0 (negative
\* results raised to 0).
C10_CostFallbackChain ==
    Computed =>
        \A i \in 1..Len(NamedRaw) :
            LET cost == FallbackCost(NamedRaw[i])
            IN  FloatOf(cleaned_data["raw_data"][i]["Cost per Unit"])
                    = (IF FLt(cost, R(0)) THEN R(0) ELSE cost)

\* ------------------------------------------------------------------------
\* C11 .. C20

CleanedRaw == cleaned_data["raw_data"]

\* C11 as stated: in every cleaned catalog record the stock, the unit cost
\* and the reorder level are numbers >= 0: a negative input becomes 0 and an
\* unparsable one becomes 0.
C11_CleanedNumbersNonNegative ==
    Computed =>
        \A i \in 1..Len(CleanedRaw) :
            /\ FLe(R(0), FloatOf(CleanedRaw[i]["Current Stock"]))
            /\ FLe(R(0), FloatOf(CleanedRaw[i]["Cost per Unit"]))
            /\ FLe(R(0), FloatOf(CleanedRaw[i]["Reorder Level"]))

\* C12 as stated: every cleaned catalog record has a non-empty identifier
\* and a non-empty name after trimming; a record whose identifier or name is
\* only whitespace never reaches the aggregator.
C12_CleanedIdAndNameNonEmpty ==
    Computed =>
        /\ \A i \in 1..Len(CleanedRaw) :
               /\ Strip(PyStr(CleanedRaw[i]["RM ID"])) # <<>>
               /\ Strip(PyStr(CleanedRaw[i]["Product Name"])) # <<>>
        /\ \A i \in 1..Len(lines) : lines[i].rm_id.s # <<>> /\ lines[i].product_name.s # <<>>

\* the distinct catalog keys among the cleaned catalog records
CleanedKeys == {CatalogKey(CleanedRaw[i]) : i \in 1..Len(CleanedRaw)}

\* C13 as stated: the rollup has exactly one line per distinct catalog key;
\* records sharing a key are merged and the key counts once in the item
\* count.
C13_OneLinePerKey ==
    Computed =>
        /\ Len(lines) = Cardinality(CleanedKeys)
        /\ metrics.total_products = Cardinality(CleanedKeys)

\* C13 amended: the rollup has one line per catalog record that has an
\* identifier and a name, in catalog order, carrying that record's trimmed
\* identifier and name; records are never merged, so records sharing a key
\* each give a line and each count in the item count.
C13_OneLinePerRecord ==
    Computed =>
        /\ Len(lines) = Len(NamedRaw)
        /\ metrics.total_products = Len(NamedRaw)
        /\ \A i \in 1..Len(lines) :
               /\ lines[i].rm_id.s = Strip(PyStr(NamedRaw[i]["RM ID"]))
               /\ lines[i].product_name.s = Strip(PyStr(NamedRaw[i]["Product Name"]))

\* C13 witness: two catalog records of one key give two lines with their
\* own stocks and an item count of 2
C13_Witness ==
    /\ Computed
    /\ Len(lines) = 2
    /\ lines[1].rm_id = lines[2].rm_id
    /\ lines[1].product_name = lines[2].product_name
    /\ lines[1].current_stock # lines[2].current_stock
    /\ metrics.total_products = 2

\* the cleaned transactions whose key is the key of a cleaned catalog record
Matched(records) == SelectSeq(records, LAMBDA r : TransactionKey(r) \in CleanedKeys)

\* C14 as stated: a transaction whose key matches no catalog record is
\* ignored: totalIn and totalOut are the sums of the quantities of the
\* transactions that belong to a line.
C14_TotalsOverMatched ==
    Computed =>
        /\ metrics.total_in = FSum(Quantities(Matched(cleaned_data["in_data"]), "Quantity In"))
        /\ metrics.total_out = FSum(Quantities(Matched(cleaned_data["out_data"]), "Quantity Out"))

\* C14 amended: no transaction changes a line (a line's stock is its catalog
\* record's own cleaned stock and its value is stock * cost), and totalIn
\* and totalOut are the sums of the quantities of all cleaned inbound and
\* outbound records, whether or not their key matches a catalog record.
C14_TotalsOverAllTransactions ==
    Computed =>
        /\ metrics.total_in = FSum(Quantities(cleaned_data["in_data"], "Quantity In"))
        /\ metrics.total_out = FSum(Quantities(cleaned_data["out_data"], "Quantity Out"))
        /\ Len(lines) = Len(CleanedRaw)
        /\ \A i \in 1..Len(lines) :
               /\ lines[i].current_stock = FloatOf(CleanedRaw[i]["Current Stock"])
               /\ lines[i].item_value = FMul(FloatOf(CleanedRaw[i]["Current Stock"]),
                                             FloatOf(CleanedRaw[i]["Cost per Unit"]))

\* C14 witness: next to a catalog line, an inbound record of an unknown key
\* is counted in totalIn
C14_Witness ==
    /\ Computed
    /\ Len(lines) = 1
    /\ Len(cleaned_data["in_data"]) = 1
    /\ TransactionKey(cleaned_data["in_data"][1]) \notin CleanedKeys
    /\ metrics.total_in = R(7)

RawCatalog == Get(data, "raw_data", <<>>)

\* the figures of the rollup that are computed from the catalog lines
CatalogFiguresZero ==
    /\ metrics.total_products = 0
    /\ metrics.alert_items = <<>>
    /\ metrics.total_value = R(0)
    /\ metrics.critical_items = 0
    /\ metrics.low_stock_items = 0
    /\ metrics.out_of_stock_items = 0
    /\ metrics.high_value_items = 0
    /\ metrics.avg_cost_per_unit = R(0)
    /\ metrics.total_reorder_value = R(0)
    /\ metrics.stock_turnover_rate = R(0)

\* C15 as stated: with an empty or missing catalog the rollup has item
\* count 0, no alert and every figure 0, totalIn and totalOut included; with
\* a catalog and no inbound or outbound records totalIn = totalOut = 0 and
\* there is one line per catalog record that has an identifier and a name.
C15_EmptyInputsAllZero ==
    Computed =>
        /\ RawCatalog = <<>> =>
               /\ CatalogFiguresZero
               /\ metrics.total_in = R(0)
               /\ metrics.total_out = R(0)
        /\ RawIn = <<>> /\ RawOut = <<>> =>
               /\ metrics.total_in = R(0)
               /\ metrics.total_out = R(0)
               /\ Len(lines) = Len(NamedRaw)

\* C15 amended: with an empty or missing catalog the rollup has item count
\* 0, no alert and every figure computed from the catalog 0 (total value,
\* the counters, average cost, reorder value and turnover), while totalIn
\* and totalOut are still the sums of the cleaned inbound and outbound
\* quantities; with a catalog and no inbound or outbound records totalIn =
\* totalOut = 0 and there is one line per catalog record that has an
\* identifier and a name.
C15_EmptyCatalogKeepsTotals ==
    Computed =>
        /\ RawCatalog = <<>> =>
               /\ CatalogFiguresZero
               /\ metrics.total_in = FSum(Quantities(cleaned_data["in_data"], "Quantity In"))
               /\ metrics.total_out = FSum(Quantities(cleaned_data["out_data"], "Quantity Out"))
        /\ RawIn = <<>> /\ RawOut = <<>> =>
               /\ metrics.total_in = R(0)
               /\ metrics.total_out = R(0)
               /\ Len(lines) = Len(NamedRaw)

\* C15 witness: no catalog, 150 units received and 60 issued: the totals
\* are 150 and 60 and every other figure is 0
C15_Witness ==
    /\ Computed
    /\ RawCatalog = <<>>
    /\ metrics.total_in = R(150)
    /\ metrics.total_out = R(60)
    /\ CatalogFiguresZero

\* a raw value that float() rejects
Unparsable(v) == v.t = "none" \/ (v.t = "str" /\ ~ParseFloat(v.s).ok)

\* a raw money text in which the digits, "." and "-" do not form a number
MoneyUnparsable(v) == v.t = "str" /\ ~ParseFloat(StripNonMoney(v.s)).ok

\* C16: every raw catalog record with a non-empty identifier and name
\* appears exactly once in the cleaned catalog, in its original order,
\* whatever records without identifier or name surround it, and each stock,
\* cost or reorder level that does not parse as a number is 0 there.
C16_MalformedScalarKeepsRecord ==
    Computed =>
        /\ Len(CleanedRaw) = Len(NamedRaw)
        /\ \A i \in 1..Len(CleanedRaw) :
               LET r == NamedRaw[i]
                   c == CleanedRaw[i]
               IN  /\ c["RM ID"].s = Strip(PyStr(r["RM ID"]))
                   /\ c["Product Name"].s = Strip(PyStr(r["Product Name"]))
                   /\ ("Current Stock" \in DOMAIN r /\ Unparsable(r["Current Stock"])
                          => FloatOf(c["Current Stock"]) = R(0))
                   /\ ("Cost per Unit" \in DOMAIN r /\ MoneyUnparsable(r["Cost per Unit"])
                          => FloatOf(c["Cost per Unit"]) = R(0))
                   /\ ("Reorder Level" \in DOMAIN r /\ MoneyUnparsable(r["Reorder Level"])
                          => FloatOf(c["Reorder Level"]) = R(0))

\* C16 witness: after a record without a name, a record whose stock is
\* "abc", cost "1.2.3" and reorder level "-" is kept with all three at 0
C16_Witness ==
    /\ Computed
    /\ Len(RawCatalog) = 2
    /\ ~Truthy(Get1(RawCatalog[1], "Product Name"))
    /\ RawCatalog[2]["Current Stock"] = T_abc
    /\ RawCatalog[2]["Cost per Unit"] = Str(<<"1", ".", "2", ".", "3">>)
    /\ RawCatalog[2]["Reorder Level"] = Str(<<"-">>)
    /\ Len(CleanedRaw) = 1
    /\ FloatOf(CleanedRaw[1]["Current Stock"]) = R(0)
    /\ FloatOf(CleanedRaw[1]["Cost per Unit"]) = R(0)
    /\ FloatOf(CleanedRaw[1]["Reorder Level"]) = R(0)

\* totalValue / max(itemCount, 1)
TurnoverDenominator ==
    FDiv(metrics.total_value,
         R(IF metrics.total_products >= 1 THEN metrics.total_products ELSE 1))

\* C17 as stated: the turnover ratio is totalOut / (totalValue /
\* max(itemCount, 1)) whenever that denominator is non-zero, and 0 when it
\* is zero.
C17_TurnoverRatio ==
    Computed =>
        /\ FEq(TurnoverDenominator, R(0)) => metrics.stock_turnover_rate = R(0)
        /\ ~FEq(TurnoverDenominator, R(0)) =>
               metrics.stock_turnover_rate = FDiv(metrics.total_out, TurnoverDenominator)

\* C18: the rollup aggregates the lines: total value is the sum of the
\* lines' values, the high-value count is the number of lines whose value is
\* strictly above 10000, the average cost is the mean of the lines' unit
\* costs (0 when there is no line), and the total reorder value is the sum
\* of reorderLevel * unitCost over exactly the lines that raise an alert.
C18_RollupAggregatesLines ==
    Computed =>
        /\ metrics.total_products = Len(lines)
        /\ metrics.total_value = FSum(MapSeq(LAMBDA l : l.item_value, lines))
        /\ metrics.high_value_items =
               Cardinality({i \in 1..Len(lines) : FGt(lines[i].item_value, R(10000))})
        /\ metrics.avg_cost_per_unit =
               (IF lines = <<>> THEN R(0)
                ELSE FDiv(FSum(MapSeq(LAMBDA l : l.unit_cost, lines)), R(Len(lines))))
        /\ metrics.total_reorder_value =
               FSum(MapSeq(LAMBDA l : FMul(l.reorder_level, l.unit_cost),
                           SelectSeq(lines, NotOk)))

\* C18 witness: a flagged line worth 16500 and an unflagged line worth 480:
\* total 16980, one high-value line, mean cost 845, reorder value 8250
C18_Witness ==
    /\ Computed
    /\ Len(lines) = 2
    /\ \E i \in 1..2 : ~NotOk(lines[i])
    /\ metrics.total_value = R(16980)
    /\ metrics.high_value_items = 1
    /\ metrics.avg_cost_per_unit = R(845)
    /\ metrics.total_reorder_value = R(8250)

\* ------------------------------------------------------------------------
\* C19, under MoneySpec

\* the characters of a text that are digits, "." or "-"
MoneyPart(s) ==
    SelectSeq(s, LAMBDA c : c \in {"0", "1", "2", "3", "4", "5", "6", "7", "8", "9", ".", "-"})

Unsign(s) == IF s # <<>> /\ Head(s) = "-" THEN Tail(s) ELSE s

\* a decimal numeral: an optional "-", digits with at most one ".", and at
\* least one digit
IsNumeral(s) ==
    LET u == Unsign(s)
    IN  /\ \A i \in 1..Len(u) : u[i] # "-"
        /\ Cardinality({i \in 1..Len(u) : u[i] = "."}) <= 1
        /\ \E i \in 1..Len(u) : u[i] # "."

\* the value of a decimal numeral
NumeralValue(s) ==
    LET u == Unsign(s)
        dot == FirstIdx(u, {"."})
        ds == SelectSeq(u, LAMBDA c : c # ".")
        places == IF dot = 0 THEN 0 ELSE Len(u) - dot
    IN  Frac((IF u = s THEN 1 ELSE -1) * DigitsVal(ds), Pow10(places))

\* C19: money_to_float returns 0 for None, for the empty text and for every
\* text whose digits, "." and "-" are none or do not form a number ("abc",
\* "-", "1.2.3"); for every other text it returns the value of the numeral
\* left once the other characters are removed ("₹1,650" gives 1650); a
\* number is returned as it is; and applying it to its own result returns
\* that result.
C19_MoneyToFloat ==
    /\ pc = "returned" =>
           /\ arg = None \/ arg = Str(<<>>) => result = R(0)
           /\ arg.t = "str" /\ ~IsNumeral(MoneyPart(arg.s)) => result = R(0)
           /\ arg.t = "str" /\ IsNumeral(MoneyPart(arg.s)) =>
                  result = NumeralValue(MoneyPart(arg.s))
           /\ arg = T_abc \/ arg = Str(<<"-">>) \/ arg = Str(<<"1", ".", "2", ".", "3">>) =>
                  result = R(0)
           /\ arg = T_Money => result = R(1650)
           /\ arg.t = "num" => result = FloatOf(arg)
    /\ pc = "again" => result = FloatOf(arg)

\* C19 witness: "₹1,650" has been converted to 1650
C19_Witness == pc = "returned" /\ arg = T_Money /\ result = R(1650)

\* ------------------------------------------------------------------------
\* C20, under Spec

\* the dataset in which every inbound record that has a "Quantity" field
\* and no "Quantity In" field carries that value as "Quantity In"
AliasRenamed ==
    ("in_data" :> MapSeq(LAMBDA r : IF "Quantity" \in DOMAIN r /\ "Quantity In" \notin DOMAIN r
                                    THEN ("Quantity In" :> r["Quantity"]) @@ r
                                    ELSE r,
                         RawIn)) @@ data

\* the dataset in which no inbound record has a "Quantity" field
AliasRemoved ==
    ("in_data" :> MapSeq(LAMBDA r : Without(r, {"Quantity"}), RawIn)) @@ data

\* C20 as stated: an inbound record that carries its positive quantity in
\* "Quantity" is kept and counted exactly like the same record carrying it
\* in "Quantity In".
C20_QuantityAliasRecognised ==
    Computed =>
        /\ Quantities(cleaned_data["in_data"], "Quantity In")
               = Quantities(clean_and_validate_data(AliasRenamed)["in_data"], "Quantity In")
        /\ metrics.total_in = calculate_inventory_metrics(AliasRenamed).total_in

\* C20 amended: the inbound cleaner reads the quantity under "Quantity In"
\* only: a field named "Quantity" changes nothing, and a record that has no
\* non-empty "Quantity In" is dropped and not counted, whatever its
\* "Quantity" field holds.
C20_OnlyQuantityIn ==
    Computed =>
        /\ Quantities(cleaned_data["in_data"], "Quantity In")
               = Quantities(clean_and_validate_data(AliasRemoved)["in_data"], "Quantity In")
        /\ metrics.total_in = calculate_inventory_metrics(AliasRemoved).total_in
        /\ Len(cleaned_data["in_data"])
               <= Len(SelectSeq(RawIn, LAMBDA r : Truthy(Get1(r, "Quantity In"))))

\* C20 witness: a named, costed inbound record with "Quantity" 5 and no
\* "Quantity In" is dropped and totalIn is 0
C20_Witness ==
    /\ Computed
    /\ Len(RawIn) = 1
    /\ "Quantity In" \notin DOMAIN RawIn[1]
    /\ Get1(RawIn[1], "Quantity") = IntV(5)
    /\ HasName(RawIn[1])
    /\ Get1(RawIn[1], "Cost Per Unit") = IntV(10)
    /\ cleaned_data["in_data"] = <<>>
    /\ metrics.total_in = R(0)

\* ------------------------------------------------------------------------
\* C21 .. C27, under Spec

\* the first candidate field of a record that is present and non-empty
\* after trimming; the empty text when there is none
RECURSIVE FirstNonBlank(_, _)
FirstNonBlank(record, candidates) ==
    IF candidates = <<>> THEN <<>>
    ELSE LET v == Get1(record, Head(candidates))
         IN  IF v # None /\ Strip(PyStr(v)) # <<>> THEN Strip(PyStr(v))
             ELSE FirstNonBlank(record, Tail(candidates))

CatalogJoinKey(record) == FirstNonBlank(record, <<"RM ID", "Product Name">>)

\* the raw catalog records whose join key is not empty
KeyedRaw == SelectSeq(RawCatalog, LAMBDA r : CatalogJoinKey(r) # <<>>)

\* the raw inbound records that the cleaner keeps, in order
KeptRawIn ==
    SelectSeq(RawIn, LAMBDA r :
        /\ HasName(r)
        /\ NotNonPositive(QuantityOf(r, "Quantity In"))
        /\ StrictlyPositive(money_to_float(Get(r, "Cost Per Unit", IntV(0)))))

\* the dataset without its inbound and outbound records
NoTransactions == ("in_data" :> <<>>) @@ ("out_data" :> <<>>) @@ data

Trimmed(record, field) == Strip(PyStr(Get(record, field, Str(<<>>))))

C24_CountersPartitionAlerts ==
    Computed =>
        /\ metrics.out_of_stock_items + metrics.critical_items + metrics.low_stock_items
               = Len(metrics.alert_items)
        /\ Len(metrics.alert_items) <= metrics.total_products
        /\ Len(metrics.alert_items) = Len(SelectSeq(lines, NotOk))
        /\ \A k \in 1..Len(metrics.alert_items) :
               metrics.alert_items[k].status \in {"critical", "warning"}
        /\ \A i \in 1..Len(lines) :
               NotOk(lines[i]) =>
                   /\ metrics.alert_items[AlertIndex(i)].rm_id = lines[i].rm_id
                   /\ metrics.alert_items[AlertIndex(i)].product = lines[i].product_name
                   /\ metrics.alert_items[AlertIndex(i)].status = lines[i].status

\* C24 witness: of two items one is out of stock and one is in stock: one
\* alert item, counted as out of stock only
C24_Witness ==
    /\ Computed
    /\ metrics.total_products = 2
    /\ metrics.out_of_stock_items = 1
    /\ metrics.critical_items = 0
    /\ metrics.low_stock_items = 0
    /\ Len(metrics.alert_items) = 1
    /\ lines[1].status = "success"

\* C25 as stated: for every raw catalog record that survives cleaning, the
\* tier the Ingredient List page computes from the raw record equals the
\* tier the metrics compute from its cleaned values.
C25_PageTierEqualsMetricsTier ==
    Computed =>
        \A i \in 1..Len(lines) : MasterProduct(NamedRaw[i]).status = lines[i].status

NonNegative(x) == FLe(R(0), x)

\* C26 as stated: every figure of the rollup is >= 0 (total value, totalIn,
\* totalOut, average cost, total reorder value, turnover, every counter),
\* and every alert item has stock, reorder level, unit cost and stock value
\* >= 0.
C26_FiguresNonNegative ==
    Computed =>
        /\ NonNegative(metrics.total_value)
        /\ NonNegative(metrics.total_in)
        /\ NonNegative(metrics.total_out)
        /\ NonNegative(metrics.avg_cost_per_unit)
        /\ NonNegative(metrics.total_reorder_value)
        /\ NonNegative(metrics.stock_turnover_rate)
        /\ \A f \in {"total_products", "critical_items", "low_stock_items",
                     "out_of_stock_items", "high_value_items"} : metrics[f] >= 0
        /\ \A k \in 1..Len(metrics.alert_items) :
               /\ NonNegative(metrics.alert_items[k].current_stock)
               /\ NonNegative(metrics.alert_items[k].reorder_level)
               /\ NonNegative(metrics.alert_items[k].unit_cost)
               /\ NonNegative(metrics.alert_items[k].stock_value)

\* C27 as stated: cleaning the cleaned data again returns the same cleaned
\* catalog, inbound and outbound collections.
C27_CleanIdempotent ==
    Computed =>
        \A k \in {"raw_data", "in_data", "out_data"} :
            clean_and_validate_data(cleaned_data)[k] = cleaned_data[k]

\* ------------------------------------------------------------------------
\* C29, under LoadSpec

\* C29: load_all_data returns None whenever the client is unavailable or
\* one of the three critical worksheets cannot be opened; whenever it
\* returns data, the data has the six keys, with an empty list for every
\* non-critical sheet that is missing and for every sheet whose records
\* could not be read, and the records of every sheet that was read.
C29_LoadNoneOrSixKeys ==
    pc = "load_returned" =>
        /\ ~world.client => result = None
        /\ (\E n \in {"Raw Material Master", "Stock In", "Stock Out"} :
                world.sheet[n] = "missing") => result = None
        /\ result # None =>
               /\ DOMAIN result = {"raw_data", "in_data", "out_data", "inventory_data",
                                   "supplier_data", "report_data"}
               /\ \A n \in sheet_names :
                      /\ world.sheet[n] \in {"missing", "unreadable"}
                             => result[sheet_data_mapping[n]] = <<>>
                      /\ world.sheet[n] = "ok"
                             => result[sheet_data_mapping[n]] = world.rows[n]

\* C29 witness: the Inventory sheet is missing and the Stock In records
\* cannot be read: data is returned with both lists empty and the catalog
\* as read
C29_Witness ==
    /\ pc = "load_returned"
    /\ world.sheet["Inventory"] = "missing"
    /\ world.sheet["Stock In"] = "unreadable"
    /\ result # None
    /\ result["inventory_data"] = <<>>
    /\ result["in_data"] = <<>>
    /\ result["raw_data"] = <<Wheat>>


(***************************************************************************)
(* The runs of main                                                        *)
(***************************************************************************)
\* the run has gone through `data = load_all_data()`
Loaded == run # Unset /\ run.source # "pending"

\* C22: a run is served the cached load result only when the fetch that
\* produced it is at most 300 seconds old, and then receives exactly that
\* result; a run that finds the entry older than 300 seconds, or no entry,
\* fetches, and receives what the spreadsheet holds at that moment; the run
\* started by the "Update Stock" button finds no entry and fetches.
C22_FreshnessWindowAndRefresh ==
    Loaded =>
        /\ run.source = "cache" => run.age >= 0 /\ run.age <= 300
        /\ run.age > 300 \/ run.age < 0 => run.source = "fetch"
        /\ run.cause = "nav_refresh" => run.source = "fetch" /\ run.age < 0
        /\ data = cache.value
        /\ pc # "app_idle" =>
               /\ cache.at = IF run.source = "fetch" THEN now ELSE now - run.age
               /\ run.source = "fetch" => data = load_all_data(world)

\* the "Update Stock" button was pressed while the entry was still fresh and
\* the spreadsheet had changed: the next run fetched the new content
C22_Witness ==
    /\ pc = "app_idle"
    /\ Loaded
    /\ run.cause = "nav_refresh"
    /\ run.source = "fetch"
    /\ now = TickSeconds
    /\ data # None
    /\ Cardinality(DOMAIN memo) = 2
    /\ page.shown = "dashboard"


\* the page a button leads to
ButtonPage(b) ==
    CASE b \in {"nav_home", "nav_dashboard"} -> "dashboard"
      [] b \in {"nav_alerts", "quick_alerts"} -> "alerts"
      [] b \in {"nav_products", "quick_products"} -> "products"
      [] b \in {"nav_reports", "quick_reports"} -> "reports"
      [] b = "nav_settings" -> "settings"

\* C30: current_page is always one of dashboard, alerts, products, reports
\* and settings; the first run of a session sets it to dashboard; the run
\* restarted by a navigation button (Home included) has it at that button's
\* page; a run restarted by "Update Stock", a run with "Save Settings"
\* pressed and a run without a press have it where it was.
C30_CurrentPageFollowsButtons ==
    /\ "current_page" \in DOMAIN session =>
           session["current_page"] \in {"dashboard", "alerts", "products", "reports", "settings"}
    /\ run # Unset =>
           /\ "current_page" \in DOMAIN session
           /\ run.first => run.start_page = "dashboard"
           /\ run.cause \notin {"none", "nav_refresh"} =>
                  session["current_page"] = ButtonPage(run.cause)
           /\ run.cause \in {"none", "nav_refresh"} =>
                  session["current_page"] = run.start_page
           /\ page.saved => run.press = "save_settings" /\ session["current_page"] = "settings"

\* "Save Settings" was pressed on the settings page, reached through its
\* navigation button, and the settings page is on the screen again
C30_Witness ==
    /\ pc = "app_idle"
    /\ run # Unset
    /\ page.saved
    /\ page.shown = "settings"
    /\ run.start_page = "settings"
    /\ session["current_page"] = "settings"


\* every figure is zero and there is no alert
AllZero(m) ==
    /\ \A k \in {"total_products", "critical_items", "low_stock_items", "out_of_stock_items",
                 "high_value_items"} : m[k] = 0
    /\ \A k \in {"total_value", "total_in", "total_out", "avg_cost_per_unit",
                 "total_reorder_value", "stock_turnover_rate"} : FEq(m[k], R(0))
    /\ m.alert_items = <<>>

\* C28: a run whose load gave None ends with the error on the screen, no
\* metrics, no page, no button (navigation and "Update Stock" included) and
\* current_page as it was; a run in which calculate_inventory_metrics raised
\* goes on with all-zero metrics and no alert, and ends with the page of
\* current_page on the screen.
C28_LoadFailureStopsMetricsFailureContinues ==
    run # Unset =>
        /\ Loaded /\ data = None =>
               /\ pc = "app_idle"
               /\ page.error
               /\ page.shown = "none"
               /\ page.buttons = {}
               /\ metrics = Unset
               /\ session["current_page"] = run.start_page
        /\ pc \in {"app_metrics", "app_nav", "app_render"} => data # None
        /\ run.raised =>
               /\ pc \in {"app_nav", "app_render", "app_idle"}
               /\ AllZero(metrics)
               /\ pc = "app_idle" =>
                      /\ page.shown = session["current_page"]
                      /\ ~page.error
                      /\ "nav_refresh" \in page.buttons

\* the metrics call raised in a run on the alerts page, and the alerts page
\* is on the screen with zero metrics
C28_Witness ==
    /\ pc = "app_idle"
    /\ run # Unset
    /\ run.raised
    /\ data # None
    /\ page.shown = "alerts"
    /\ AllZero(metrics)


\* the run holds the result of an invocation of the engine
Invoked == Loaded /\ data # None /\ ~run.raised /\ pc \in {"app_nav", "app_render", "app_idle"}

\* C23: the result of every invocation is the function of its input alone,
\* whatever invocations on other inputs came before; the invocation leaves
\* its input as it was loaded; and the engine keeps no cache of results.
C23_EngineStateless ==
    Invoked =>
        /\ metrics = calculate_inventory_metrics(data)
        /\ data = cache.value
        /\ memo = Unset

====
